---- MODULE Spec2Model ----
(***************************************************************************)
(* Model of the detection store (database.py) and of the severity          *)
(* classifier (detectors/base.py) of rlhf-data-quality.                    *)
(*                                                                         *)
(* The persisted state is the SQLite file: the schema objects created by   *)
(* SCHEMA_SQL, the rows of schema_version, response_pairs and detections,  *)
(* and the AUTOINCREMENT counter SQLite keeps in sqlite_sequence.  Every   *)
(* store operation is one action: it opens a connection through            *)
(* get_db_connection, runs its statements, and commits or rolls back.      *)
(* An operation may also be hit by an exception the environment raises     *)
(* (I/O error, locked database, interrupt) at any of its steps; the step   *)
(* is chosen by the action's fault parameter (0: none).                    *)
(*                                                                         *)
(* Severities are integers in units of 10^-6, so 0.90 is 900000.           *)
(***************************************************************************)
EXTENDS Integers, Sequences, FiniteSets, TLC

VARIABLES
    schema,           \* names of the tables and indexes that exist in the file
    schema_version,   \* rows of schema_version: the set of version numbers
    response_pairs,   \* rows of response_pairs
    detections,       \* rows of detections
    sqlite_sequence,  \* AUTOINCREMENT counter of detections
    now,              \* CURRENT_TIMESTAMP, in seconds
    last,             \* the call that produced this state
    returned,         \* the detection_ids insert_detection has returned, in call order
    signal,           \* a detector's analyze call: its rows, its threshold, its results
    open_connections, \* connections opened by get_db_connection and not closed
    stats,            \* the get_detection_statistics call in progress
    initers           \* the init_db calls running concurrently

vars == <<schema, schema_version, response_pairs, detections, sqlite_sequence, now,
          last, returned, signal, open_connections, stats, initers>>

\* what the sequential store operations, which open and close one connection
\* each, leave alone
others == <<signal, open_connections, stats, initers>>

----------------------------------------------------------------------------
(* Bounds *)

MaxDetections == 2      \* insert_detection is called while sqlite_sequence is below this
MaxClock == 1           \* the clock advances up to this second
MaxLengthRows == 2      \* rows given to LengthRatioSignal.analyze
MaxLen == 3             \* length of a chosen or rejected response
MaxDuplicateRows == 3   \* rows given to SemanticDuplicateSignal.analyze
MaxOpenConnections == 1 \* connections left open that the model counts

----------------------------------------------------------------------------
(* Program constants and input sets *)

CURRENT_SCHEMA_VERSION == 1

Micro == 1000 * 1000    \* the severity 1.0

PairIds == {"p1", "p2"}
Rows == { [chosen |-> "c1", rejected |-> "r1", source_dataset |-> "d1"],
          [chosen |-> "c2", rejected |-> "r2", source_dataset |-> "d2"] }
\* what insert_detection is called with besides the pair: a boolean detector's
\* finding at the fixed severity 1.0, a similarity score of 0.0, and two
\* severities outside [0.0, 1.0]; metadata is None, the empty dict or a dict
DetectionInputs ==
    { [signal_type |-> "length_ratio", severity |-> Micro, metadata |-> "None"],
      [signal_type |-> "semantic_duplicate", severity |-> 0, metadata |-> "{k:v}"],
      [signal_type |-> "length_ratio", severity |-> Micro + 1, metadata |-> "{}"],
      [signal_type |-> "semantic_duplicate", severity |-> -1, metadata |-> "None"] }

\* the CREATE TABLE statements of SCHEMA_SQL, in script order.  The three
\* CREATE INDEX statements that follow them are left out: an index changes the
\* outcome of no statement modelled here.
SchemaObjects == << "response_pairs", "detections", "schema_version" >>

\* a call: the operation, the severity given to get_severity_level (0 for the
\* other operations), "ok" or the exception raised, and the value returned
NoCall == [op |-> "none", severity |-> 0, result |-> "ok", ret |-> <<>>]

Call(op, severity, result, ret) ==
    [op |-> op, severity |-> severity, result |-> result, ret |-> ret]

\* no analyze call, no statistics call and no concurrent init_db call
NoSignal == [name |-> "none", rows |-> <<>>, param |-> <<>>, result |-> "ok",
             results |-> <<>>, evaluations |-> <<>>]
NoStats == [pc |-> "idle", total |-> 0, by_signal |-> <<>>, severity_distribution |-> <<>>]
NoIniters == <<>>

----------------------------------------------------------------------------
(* The database file *)

Db == [ schema |-> schema, schema_version |-> schema_version,
        response_pairs |-> response_pairs, detections |-> detections,
        sqlite_sequence |-> sqlite_sequence ]

Store(d) ==
    /\ schema' = d.schema
    /\ schema_version' = d.schema_version
    /\ response_pairs' = d.response_pairs
    /\ detections' = d.detections
    /\ sqlite_sequence' = d.sqlite_sequence

MaxOf(S) == CHOOSE m \in S : \A x \in S : x <= m

PairIdsOf(d) == { p.pair_id : p \in d.response_pairs }

----------------------------------------------------------------------------
(* SQL statements.  A statement maps the connection's view of the database *)
(* to [db, err, ret]; a failing statement changes nothing.                 *)

Done(d, ret) == [db |-> d, err |-> "ok", ret |-> ret]
Failed(d, err) == [db |-> d, err |-> err, ret |-> <<>>]

\* CREATE TABLE / CREATE INDEX IF NOT EXISTS: the first n statements of SCHEMA_SQL
CreateObjects(d, n) ==
    [d EXCEPT !.schema = @ \cup { SchemaObjects[i] : i \in 1..n }]

\* detection_id INTEGER PRIMARY KEY AUTOINCREMENT: one more than the largest
\* rowid the table has ever held
NextRowidReuse(d) ==
    MaxOf({0} \cup { x.detection_id : x \in d.detections }) + 1

NextRowid(d) ==
    MaxOf({d.sqlite_sequence} \cup { x.detection_id : x \in d.detections }) + 1

\* severity REAL NOT NULL CHECK (severity >= 0.0 AND severity <= 1.0)
SeverityCheck(severity) == severity >= 0 /\ severity <= Micro

\* FOREIGN KEY (pair_id) REFERENCES response_pairs(pair_id), with foreign_keys = ON
ForeignKeyNotEnforced(d, pair_id) == TRUE

ForeignKeyOk(d, pair_id) == pair_id \in PairIdsOf(d)

\* pair_id TEXT PRIMARY KEY
PrimaryKeyNotEnforced(d, pair_id) == FALSE

PrimaryKeyTaken(d, pair_id) == pair_id \in PairIdsOf(d)

\* INSERT INTO response_pairs (pair_id, chosen, rejected, source_dataset)
InsertPairStmt(d, pair_id, row) ==
    IF "response_pairs" \notin d.schema THEN Failed(d, "OperationalError")
    ELSE IF PrimaryKeyTaken(d, pair_id) THEN Failed(d, "IntegrityError")
    ELSE Done([d EXCEPT !.response_pairs = @ \cup
                   {[pair_id |-> pair_id, chosen |-> row.chosen,
                     rejected |-> row.rejected,
                     source_dataset |-> row.source_dataset]}], <<>>)

\* INSERT INTO detections (pair_id, signal_type, severity, metadata)
InsertDetectionStmtUpsert(d, pair_id, signal_type, severity, metadata_json, t) ==
    IF "detections" \notin d.schema THEN Failed(d, "OperationalError")
    ELSE IF ~SeverityCheck(severity) THEN Failed(d, "IntegrityError")
    ELSE IF ~ForeignKeyOk(d, pair_id) THEN Failed(d, "IntegrityError")
    ELSE LET id == NextRowid(d) IN
         Done([d EXCEPT !.detections =
                   { x \in @ : ~(x.pair_id = pair_id /\ x.signal_type = signal_type) } \cup
                   {[detection_id |-> id, pair_id |-> pair_id,
                     signal_type |-> signal_type, severity |-> severity,
                     metadata |-> metadata_json, detected_at |-> t]},
                 !.sqlite_sequence = id], <<id>>)

InsertDetectionStmt(d, pair_id, signal_type, severity, metadata_json, t) ==
    IF "detections" \notin d.schema THEN Failed(d, "OperationalError")
    ELSE IF ~SeverityCheck(severity) THEN Failed(d, "IntegrityError")
    ELSE IF ~ForeignKeyOk(d, pair_id) THEN Failed(d, "IntegrityError")
    ELSE LET id == NextRowid(d) IN
         Done([d EXCEPT !.detections = @ \cup
                   {[detection_id |-> id, pair_id |-> pair_id,
                     signal_type |-> signal_type, severity |-> severity,
                     metadata |-> metadata_json, detected_at |-> t]},
                 !.sqlite_sequence = id], <<id>>)

\* DELETE FROM detections
DeleteDetectionsStmt(d) ==
    IF "detections" \notin d.schema THEN Failed(d, "OperationalError")
    ELSE Done([d EXCEPT !.detections = {}], <<>>)

\* DELETE FROM response_pairs: refused while a detection references a pair
DeletePairsStmtSkipped(d) == Done(d, <<>>)

DeletePairsStmt(d) ==
    IF "response_pairs" \notin d.schema THEN Failed(d, "OperationalError")
    ELSE IF \E x \in d.detections : x.pair_id \in PairIdsOf(d)
         THEN Failed(d, "IntegrityError")
    ELSE Done([d EXCEPT !.response_pairs = {}], <<>>)

\* INSERT INTO schema_version (version): version INTEGER PRIMARY KEY
InsertVersionStmt(d, v) ==
    IF "schema_version" \notin d.schema THEN Failed(d, "OperationalError")
    ELSE IF v \in d.schema_version THEN Failed(d, "IntegrityError")
    ELSE Done([d EXCEPT !.schema_version = @ \cup {v}], <<>>)

----------------------------------------------------------------------------
(* get_db_connection.  A block's outcome is [disk, tx, raised, ret]: disk  *)
(* is what the file holds when the block ends, tx what the connection      *)
(* sees (disk plus its open transaction), raised the exception or "ok".    *)

Block(disk, tx, raised, ret) == [disk |-> disk, tx |-> tx, raised |-> raised, ret |-> ret]

\* try: yield conn; conn.commit()  except: conn.rollback(); raise  finally: conn.close()
get_db_connection(b, commitFails) ==
    IF b.raised # "ok" THEN [db |-> b.disk, result |-> b.raised, ret |-> <<>>]
    ELSE IF commitFails THEN [db |-> b.disk, result |-> "Fault", ret |-> <<>>]
    ELSE [db |-> b.tx, result |-> "ok", ret |-> b.ret]

----------------------------------------------------------------------------
(* The store operations.  Each maps the file d, the arguments and the step *)
(* at which the environment raises (fault; 0 for none) to [db, result,     *)
(* ret]: the file afterwards, "ok" or the exception, the returned value.   *)

\* steps of each operation's block, the last one being the commit
ScriptSteps == Len(SchemaObjects)
InitDbSteps == ScriptSteps + 4  \* the script's statements, SELECT, INSERT, logger.info, commit
InsertResponsePairSteps == 3  \* INSERT, logger.debug, commit
InsertDetectionSteps == 3     \* INSERT, lastrowid and logger.debug, commit
ClearAllDataSteps == 4        \* DELETE, DELETE, logger.warning, commit
VacuumDbSteps == 3            \* VACUUM, logger.info, commit

\* cursor.fetchone() is None, after SELECT version FROM schema_version WHERE version = ?
VersionRowMissingAlways(d) == TRUE

VersionRowMissing(d) == CURRENT_SCHEMA_VERSION \notin d.schema_version

\* cursor.executescript(SCHEMA_SQL): each statement runs in autocommit mode, so
\* what the script has created is in the file as soon as the statement ends
init_db(d, fault) ==
    LET n  == IF fault \in 1..ScriptSteps THEN fault - 1 ELSE ScriptSteps
        d1 == CreateObjects(d, n)
        s  == InsertVersionStmt(d1, CURRENT_SCHEMA_VERSION)
        b  == IF fault \in 1..(ScriptSteps + 1) THEN Block(d1, d1, "Fault", <<>>)
              ELSE IF VersionRowMissing(d1)
                   THEN IF fault = ScriptSteps + 2 THEN Block(d1, d1, "Fault", <<>>)
                        ELSE IF s.err # "ok" THEN Block(d1, d1, s.err, <<>>)
                        ELSE IF fault = ScriptSteps + 3 THEN Block(d1, s.db, "Fault", <<>>)
                        ELSE Block(d1, s.db, "ok", <<>>)
              ELSE IF fault = ScriptSteps + 3 THEN Block(d1, d1, "Fault", <<>>)
              ELSE Block(d1, d1, "ok", <<>>)
    IN get_db_connection(b, fault = InitDbSteps)

insert_response_pair(d, pair_id, row, fault) ==
    LET s == InsertPairStmt(d, pair_id, row)
        b == IF fault = 1 THEN Block(d, d, "Fault", <<>>)
             ELSE IF s.err # "ok" THEN Block(d, d, s.err, <<>>)
             ELSE IF fault = 2 THEN Block(d, s.db, "Fault", <<>>)
             ELSE Block(d, s.db, "ok", <<>>)
    IN get_db_connection(b, fault = InsertResponsePairSteps)

\* if not 0.0 <= severity <= 1.0: raise ValueError
SeverityInRangeNoUpper(severity) == 0 <= severity

SeverityInRange(severity) == 0 <= severity /\ severity <= Micro

\* json.dumps(metadata) if metadata else None
MetadataJson(metadata) ==
    IF metadata \in {"None", "{}"} THEN "NULL" ELSE "{\"k\": \"v\"}"

insert_detection(d, pair_id, signal_type, severity, metadata, t, fault) ==
    IF ~SeverityInRange(severity)
    THEN [db |-> d, result |-> "ValueError", ret |-> <<>>]
    ELSE
    LET s == InsertDetectionStmt(d, pair_id, signal_type, severity,
                                 MetadataJson(metadata), t)
        b == IF fault = 1 THEN Block(d, d, "Fault", <<>>)
             ELSE IF s.err # "ok" THEN Block(d, d, s.err, <<>>)
             ELSE IF fault = 2 THEN Block(d, s.db, "Fault", <<>>)
             ELSE Block(d, s.db, "ok", s.ret)
    IN get_db_connection(b, fault = InsertDetectionSteps)

\* cursor.execute("DELETE FROM detections"); cursor.execute("DELETE FROM response_pairs")
clear_all_data(d, fault) ==
    LET s1 == DeleteDetectionsStmt(d)
        s2 == DeletePairsStmt(s1.db)
        b  == IF fault = 1 THEN Block(d, d, "Fault", <<>>)
              ELSE IF s1.err # "ok" THEN Block(d, d, s1.err, <<>>)
              ELSE IF fault = 2 THEN Block(d, s1.db, "Fault", <<>>)
              ELSE IF s2.err # "ok" THEN Block(d, s1.db, s2.err, <<>>)
              ELSE IF fault = 3 THEN Block(d, s2.db, "Fault", <<>>)
              ELSE Block(d, s2.db, "ok", <<>>)
    IN get_db_connection(b, fault = ClearAllDataSteps)

\* conn.execute("VACUUM"): rebuilds the file, the rows and sqlite_sequence kept
vacuum_db(d, fault) ==
    LET b == IF fault \in 1..2 THEN Block(d, d, "Fault", <<>>)
             ELSE Block(d, d, "ok", <<>>)
    IN get_db_connection(b, fault = VacuumDbSteps)

\* SELECT COUNT(*) FROM response_pairs
count_response_pairs(d) ==
    LET b == IF "response_pairs" \notin d.schema
             THEN Block(d, d, "OperationalError", <<>>)
             ELSE Block(d, d, "ok", <<Cardinality(d.response_pairs)>>)
    IN get_db_connection(b, FALSE)

\* ORDER BY severity DESC, detected_at: x may come before y
OrderByAllows(x, y) ==
    \/ x.severity > y.severity
    \/ x.severity = y.severity /\ x.detected_at <= y.detected_at

\* The result lists SQL allows for SELECT * FROM detections WHERE pair_id = ?
\* ORDER BY severity DESC, detected_at: every arrangement of the pair's rows
\* that respects the two sort keys; rows equal in both come in any order
OrderedSelections(d, pair_id) ==
    LET S == { x \in d.detections : x.pair_id = pair_id }
        n == Cardinality(S)
    IN { q \in [1..n -> S] :
           /\ \A i, j \in 1..n : i < j => q[i] # q[j] /\ OrderByAllows(q[i], q[j]) }

get_detections_for_pair(d, pair_id, q) ==
    LET b == IF "detections" \notin d.schema
             THEN Block(d, d, "OperationalError", <<>>)
             ELSE Block(d, d, "ok", [i \in 1..Len(q) |-> q[i].detection_id])
    IN get_db_connection(b, FALSE)

----------------------------------------------------------------------------
(* BaseDetector.get_severity_level *)

CriticalFrom == 900000    \* severity >= 0.90
HighFrom == 700000        \* severity >= 0.70
MediumFrom == 500000      \* severity >= 0.50

CriticalTestStrict(severity) == severity > CriticalFrom

CriticalTest(severity) == severity >= CriticalFrom

get_severity_level(severity) ==
    IF ~(0 <= severity /\ severity <= Micro)
    THEN [result |-> "ValueError", ret |-> <<>>]
    ELSE IF CriticalTest(severity) THEN [result |-> "ok", ret |-> <<"critical">>]
    ELSE IF severity >= HighFrom THEN [result |-> "ok", ret |-> <<"high">>]
    ELSE IF severity >= MediumFrom THEN [result |-> "ok", ret |-> <<"medium">>]
    ELSE [result |-> "ok", ret |-> <<"low">>]

\* inputs of the classifier: every hundredth from -0.05 to 1.05, and the
\* neighbours of each bucket boundary
LevelSeverities ==
    { k * 10000 : k \in -5..105 } \cup
    { b + e : b \in {0, MediumFrom, HighFrom, CriticalFrom, Micro}, e \in {-10, -1, 1, 10} }

----------------------------------------------------------------------------
(* Actions *)

Init ==
    /\ schema = {}
    /\ schema_version = {}
    /\ response_pairs = {}
    /\ detections = {}
    /\ sqlite_sequence = 0
    /\ now = 0
    /\ last = NoCall
    /\ returned = <<>>
    /\ signal = NoSignal
    /\ open_connections = 0
    /\ stats = NoStats
    /\ initers = NoIniters

Finish(op, r) ==
    /\ Store(r.db)
    /\ last' = Call(op, 0, r.result, r.ret)
    /\ returned' = IF op = "insert_detection" /\ r.result = "ok"
                   THEN Append(returned, r.ret[1]) ELSE returned
    /\ UNCHANGED now
    /\ UNCHANGED others

InitDb ==
    \E fault \in 0..InitDbSteps :
        Finish("init_db", init_db(Db, fault))

InsertResponsePair ==
    \E pair_id \in PairIds, row \in Rows, fault \in 0..InsertResponsePairSteps :
        Finish("insert_response_pair", insert_response_pair(Db, pair_id, row, fault))

InsertDetection ==
    /\ sqlite_sequence < MaxDetections
    /\ \E pair_id \in PairIds, x \in DetectionInputs, fault \in 0..InsertDetectionSteps :
        Finish("insert_detection",
               insert_detection(Db, pair_id, x.signal_type, x.severity, x.metadata,
                                now, fault))

ClearAllData ==
    \E fault \in 0..ClearAllDataSteps :
        Finish("clear_all_data", clear_all_data(Db, fault))

VacuumDb ==
    \E fault \in 0..VacuumDbSteps :
        Finish("vacuum_db", vacuum_db(Db, fault))

CountResponsePairs ==
    Finish("count_response_pairs", count_response_pairs(Db))

GetDetectionsForPair ==
    \E pair_id \in PairIds :
        \E q \in OrderedSelections(Db, pair_id) :
            Finish("get_detections_for_pair", get_detections_for_pair(Db, pair_id, q))

\* the wall clock moves on between two calls
Tick ==
    /\ now < MaxClock
    /\ now' = now + 1
    /\ last' = NoCall
    /\ UNCHANGED <<schema, schema_version, response_pairs, detections, sqlite_sequence,
                   returned>>
    /\ UNCHANGED others

Next ==
    \/ InitDb
    \/ InsertResponsePair
    \/ InsertDetection
    \/ ClearAllData
    \/ VacuumDb
    \/ CountResponsePairs
    \/ GetDetectionsForPair
    \/ Tick

Spec == Init /\ [][Next]_vars

\* the classifier applied to each input
GetSeverityLevel ==
    \E severity \in LevelSeverities :
        LET r == get_severity_level(severity) IN
        /\ last' = Call("get_severity_level", severity, r.result, r.ret)
        /\ UNCHANGED <<schema, schema_version, response_pairs, detections,
                       sqlite_sequence, now, returned>>
        /\ UNCHANGED others

SeverityNext == GetSeverityLevel

SeveritySpec == Init /\ [][SeverityNext]_vars

----------------------------------------------------------------------------
(* Properties of the store *)

Persisted == <<schema, schema_version, response_pairs, detections, sqlite_sequence>>

\* C1: every persisted detection has 0.0 <= severity <= 1.0, and in every
\* reachable state insert_detection called with a severity outside [0.0, 1.0]
\* raises ValueError, whatever the pair, the other arguments and the
\* environment do, and leaves the file as it was.
C1_SeverityInRange ==
    /\ \A x \in detections : 0 <= x.severity /\ x.severity <= 1000 * 1000
    /\ \A pair_id \in PairIds, x \in DetectionInputs, fault \in 0..InsertDetectionSteps :
         (x.severity < 0 \/ x.severity > 1000 * 1000) =>
            LET r == insert_detection(Db, pair_id, x.signal_type, x.severity,
                                      x.metadata, now, fault)
            IN r.result = "ValueError" /\ r.db = Db

\* an out-of-range insert_detection was just rejected by a store that holds detections
C1_Witness ==
    last.op = "insert_detection" /\ last.result = "ValueError" /\ detections # {}

\* C2: in every reachable state each detection's pair_id is the pair_id of a
\* stored response pair, and insert_detection for a pair_id that is not stored
\* fails and leaves the file as it was.
C2_PairIdResolves ==
    /\ \A x \in detections : \E p \in response_pairs : p.pair_id = x.pair_id
    /\ \A pair_id \in PairIds, x \in DetectionInputs, fault \in 0..InsertDetectionSteps :
         (\A p \in response_pairs : p.pair_id # pair_id) =>
            LET r == insert_detection(Db, pair_id, x.signal_type, x.severity,
                                      x.metadata, now, fault)
            IN r.result # "ok" /\ r.db = Db

\* an insert_detection for an unknown pair was just refused by a store that holds
\* another pair and its detections
C2_Witness ==
    /\ last.op = "insert_detection" /\ last.result = "IntegrityError"
    /\ response_pairs # {} /\ detections # {}

\* C3: from every reachable state init_db succeeds, and so do a second and a
\* third call after it; the first call leaves one schema_version row (version
\* 1), every table, and the pairs, detections and id counter as they were, and
\* the later calls change nothing more.
C3_InitDbIdempotent ==
    LET once   == init_db(Db, 0)
        twice  == init_db(once.db, 0)
        thrice == init_db(twice.db, 0)
    IN /\ once.result = "ok" /\ twice.result = "ok" /\ thrice.result = "ok"
       /\ once.db.schema_version = {1}
       /\ once.db.schema = {"response_pairs", "detections", "schema_version"}
       /\ once.db.response_pairs = response_pairs
       /\ once.db.detections = detections
       /\ once.db.sqlite_sequence = sqlite_sequence
       /\ twice.db = once.db /\ thrice.db = once.db
       /\ (last.op = "init_db" /\ last.result = "ok" => once.db = Db)

\* init_db has just succeeded on a store that already held pairs and detections
C3_Witness ==
    /\ last.op = "init_db" /\ last.result = "ok"
    /\ response_pairs # {} /\ detections # {}

\* C4: whenever clear_all_data completes, count_response_pairs is 0, no
\* detection is left, the tables and the schema_version rows are what they
\* were, and init_db then succeeds.
C4_ResetEmpties ==
    /\ \A fault \in 0..ClearAllDataSteps :
         LET r == clear_all_data(Db, fault) IN
         r.result = "ok" =>
            /\ count_response_pairs(r.db).ret = <<0>>
            /\ Cardinality(r.db.detections) = 0
            /\ r.db.schema = schema
            /\ r.db.schema_version = schema_version
            /\ init_db(r.db, 0).result = "ok"
    /\ last.op = "clear_all_data" /\ last.result = "ok" =>
            /\ response_pairs = {} /\ detections = {}
            /\ init_db(Db, 0).result = "ok"

\* clear_all_data has just completed on an initialized store that had held detections
C4_Witness ==
    /\ last.op = "clear_all_data" /\ last.result = "ok"
    /\ returned # <<>> /\ schema_version = {1}

\* C5: no two stored pairs share a pair_id, and insert_response_pair for a
\* stored pair_id fails (with IntegrityError when its INSERT runs) and leaves
\* the file, so the stored pair's fields and the pair count, as it was.
C5_DuplicatePairRejected ==
    /\ \A p, q \in response_pairs : p.pair_id = q.pair_id => p = q
    /\ \A p \in response_pairs, row \in Rows, fault \in 0..InsertResponsePairSteps :
         LET r == insert_response_pair(Db, p.pair_id, row, fault) IN
         /\ r.result # "ok"
         /\ fault # 1 => r.result = "IntegrityError"
         /\ r.db = Db
         /\ p \in r.db.response_pairs
         /\ Cardinality(r.db.response_pairs) = Cardinality(response_pairs)

\* a duplicate insert_response_pair has just been refused
C5_Witness ==
    last.op = "insert_response_pair" /\ last.result = "IntegrityError"

\* C6: a mutating operation that raises leaves the file as it was before the call.
C6_AllOrNothing ==
    [][ ( /\ last'.op \in {"init_db", "insert_response_pair", "insert_detection",
                           "clear_all_data"}
          /\ last'.result # "ok" )
        => Persisted' = Persisted ]_vars

\* C7: get_severity_level returns critical from 0.90, high from 0.70 up to 0.90,
\* medium from 0.50 up to 0.70 and low below 0.50, for every severity in
\* [0.0, 1.0], and raises instead of returning a bucket for any other severity.
C7_SeverityBuckets ==
    last.op = "get_severity_level" =>
        LET s == last.severity IN
        IF s < 0 \/ s > 1000 * 1000
        THEN last.result = "ValueError" /\ last.ret = <<>>
        ELSE /\ last.result = "ok"
             /\ last.ret = << IF s >= 900000 THEN "critical"
                              ELSE IF s >= 700000 THEN "high"
                              ELSE IF s >= 500000 THEN "medium"
                              ELSE "low" >>

\* the classifier has just put the boundary value 0.90 into the critical bucket
C7_Witness ==
    /\ last.op = "get_severity_level" /\ last.severity = 900000
    /\ last.ret = <<"critical">>

\* C8: the detection_ids returned by insert_detection, in call order, are
\* strictly increasing, and the id just returned is the id of the stored row.
C8_DetectionIdsIncrease ==
    /\ \A i, j \in 1..Len(returned) : i < j => returned[i] < returned[j]
    /\ last.op = "insert_detection" /\ last.result = "ok" =>
          /\ last.ret = << returned[Len(returned)] >>
          /\ \E x \in detections : x.detection_id = last.ret[1]

\* insert_detection has just returned an id after a reset deleted the
\* detections inserted before it
C8_Witness ==
    /\ last.op = "insert_detection" /\ last.result = "ok"
    /\ Len(returned) >= 2 /\ Cardinality(detections) = 1

\* C9: a step keeps every stored detection and every stored pair as it is, no
\* stored detection's id being given to another row, unless the step is a
\* clear_all_data that completes, and that step leaves neither detections nor
\* pairs.
C9_AppendOnly ==
    [][ \/ /\ detections \subseteq detections'
           /\ response_pairs \subseteq response_pairs'
           /\ \A x \in detections, y \in detections' :
                 x.detection_id = y.detection_id => x = y
        \/ /\ last'.op = "clear_all_data" /\ last'.result = "ok"
           /\ detections' = {} /\ response_pairs' = {} ]_vars

\* two detections are stored and vacuum_db has just run over them
C9_Witness ==
    /\ last.op = "vacuum_db" /\ last.result = "ok"
    /\ Cardinality(detections) >= 2

\* C10: get_detections_for_pair returns the detections of one pair, each once,
\* by decreasing severity and, within one severity, by increasing detection_id.
C10_InsertionOrderWithinSeverity ==
    last.op = "get_detections_for_pair" /\ last.result = "ok" =>
        LET n == Len(last.ret)
            row(i) == CHOOSE x \in detections : x.detection_id = last.ret[i]
        IN /\ \E p \in PairIds :
                 { last.ret[i] : i \in 1..n } =
                 { x.detection_id : x \in { y \in detections : y.pair_id = p } }
           /\ \A i, j \in 1..n : i < j =>
                 \/ row(i).severity > row(j).severity
                 \/ /\ row(i).severity = row(j).severity
                    /\ row(i).detection_id < row(j).detection_id

----------------------------------------------------------------------------
(* LengthRatioSignal.  A row is [row_id, chosen, rejected], a response     *)
(* being given by its length, the one thing analyze reads of it; row_id is *)
(* the row's position.  PreferenceRow is not frozen, so a row whose        *)
(* response was emptied after construction reaches analyze.  max_ratio is  *)
(* the fraction m[1] / m[2], a ratio the fraction <<chosen, rejected>>,    *)
(* None the empty tuple.                                                   *)

\* max_ratio: the default 3.0, 1.5, 1.0, and two values below 1.0
MaxRatios == { <<3, 1>>, <<3, 2>>, <<1, 1>>, <<1, 2>>, <<0, 1>> }

Lengths == 0..MaxLen

LengthRow(i, cr) == [row_id |-> i, chosen |-> cr[1], rejected |-> cr[2]]

\* ratio > self.max_ratio
RatioAbove(c, r, m) == c * m[2] > m[1] * r

\* ratio < 1/self.max_ratio, for max_ratio # 0
RatioBelowInverse(c, r, m) ==
    IF m[1] > 0 THEN c * m[1] < m[2] * r ELSE c * m[1] > m[2] * r

\* one pass of the for loop: the findings appended for the row, or the exception
LengthRatioRow(row, m) ==
    IF row.chosen = 0 \/ row.rejected = 0
    THEN [err |-> "ok",
          out |-> << [row_id |-> row.row_id, ratio |-> <<>>, flagged |-> TRUE] >>]
    ELSE LET found == [err |-> "ok",
                       out |-> << [row_id |-> row.row_id,
                                   ratio |-> <<row.chosen, row.rejected>>,
                                   flagged |-> TRUE] >>]
         IN IF RatioAbove(row.chosen, row.rejected, m) THEN found
            ELSE IF m[1] = 0 THEN [err |-> "ZeroDivisionError", out |-> <<>>]
            ELSE IF RatioBelowInverse(row.chosen, row.rejected, m) THEN found
            ELSE [err |-> "ok", out |-> <<>>]

RECURSIVE LengthRatioLoop(_, _, _, _)
LengthRatioLoop(rows, m, i, results) ==
    IF i > Len(rows) THEN [result |-> "ok", results |-> results]
    ELSE LET one == LengthRatioRow(rows[i], m) IN
         IF one.err # "ok" THEN [result |-> one.err, results |-> <<>>]
         ELSE LengthRatioLoop(rows, m, i + 1, results \o one.out)

length_ratio_analyze(rows, m) == LengthRatioLoop(rows, m, 1, <<>>)

LengthInit ==
    /\ Init!1 /\ Init!2 /\ Init!3 /\ Init!4 /\ Init!5 /\ Init!6 /\ Init!7 /\ Init!8
    /\ open_connections = 0 /\ stats = NoStats /\ initers = NoIniters
    /\ \E n \in 0..MaxLengthRows, m \in MaxRatios :
         \E f \in [1..n -> Lengths \X Lengths] :
            signal = [name |-> "length_ratio", rows |-> [i \in 1..n |-> LengthRow(i, f[i])],
                      param |-> m, result |-> "pending", results |-> <<>>,
                      evaluations |-> <<>>]

LengthRatioAnalyze ==
    /\ signal.name = "length_ratio" /\ signal.result = "pending"
    /\ LET r == length_ratio_analyze(signal.rows, signal.param) IN
       signal' = [signal EXCEPT !.result = r.result, !.results = r.results]
    /\ UNCHANGED <<schema, schema_version, response_pairs, detections, sqlite_sequence,
                   now, last, returned, open_connections, stats, initers>>

LengthNext == LengthRatioAnalyze

LengthSpec == LengthInit /\ [][LengthNext]_vars

\* the findings of the row at position i
FindingsOf(i) == { k \in 1..Len(signal.results) : signal.results[k].row_id = i }

\* C11 as stated: once analyze has run it has returned; a row with two non-empty
\* responses has one finding, flagged and with ratio chosen/rejected, when its
\* ratio is above max_ratio or below 1/max_ratio, and none otherwise; a row of
\* equal lengths has no finding; a row with an empty response has one finding,
\* flagged and with ratio None.
C11_LengthRatioAsStated ==
    (signal.name = "length_ratio" /\ signal.result # "pending") =>
    /\ signal.result = "ok"
    /\ \A i \in 1..Len(signal.rows) :
         LET c == signal.rows[i].chosen
             r == signal.rows[i].rejected
             p == signal.param[1]
             q == signal.param[2]
             n == Cardinality(FindingsOf(i))
         IN IF c = 0 \/ r = 0
            THEN /\ n = 1
                 /\ \A k \in FindingsOf(i) :
                       signal.results[k].flagged /\ signal.results[k].ratio = <<>>
            ELSE /\ n = (IF c * q > p * r \/ (p > 0 /\ c * p < q * r) THEN 1 ELSE 0)
                 /\ \A k \in FindingsOf(i) :
                       /\ signal.results[k].flagged
                       /\ Len(signal.results[k].ratio) = 2
                       /\ signal.results[k].ratio[1] * r = signal.results[k].ratio[2] * c
                 /\ c = r => n = 0

----------------------------------------------------------------------------
(* SemanticDuplicateSignal.  A row is [row_id, embedding]: row_id is the   *)
(* row's position and embedding the vector model.encode returns for its    *)
(* chosen text, any vector of Embeddings.  threshold is the fraction       *)
(* t[1] / t[2]; a similarity dot / sqrt(norms) is kept as <<dot, norms>>,  *)
(* norms the product of the two squared norms.                             *)

Embeddings == { <<1, 0>>, <<0, 1>>, <<1, 1>>, <<0, 0>> }

\* threshold: the default 0.95, 0.5 and 0.0
Thresholds == { <<95, 100>>, <<1, 2>>, <<0, 1>> }

Dot(a, b) == a[1] * b[1] + a[2] * b[2]

\* np.dot(a, b) / (np.linalg.norm(a) * np.linalg.norm(b))
cosine_similarity(a, b) == <<Dot(a, b), Dot(a, a) * Dot(b, b)>>

\* sim > self.threshold; a zero vector gives nan, which is above nothing
SimilarityAbove(sim, t) ==
    /\ sim[2] > 0
    /\ IF t[1] >= 0
       THEN sim[1] > 0 /\ sim[1] * sim[1] * t[2] * t[2] > t[1] * t[1] * sim[2]
       ELSE sim[1] >= 0 \/ sim[1] * sim[1] * t[2] * t[2] < t[1] * t[1] * sim[2]

\* the first j of the inner loop: range(i + 1, len(embeddings))
InnerStartSelf(i) == i

InnerStart(i) == i + 1

RECURSIVE DuplicateLoop(_, _, _, _, _, _)
DuplicateLoop(rows, t, i, j, evaluations, results) ==
    IF i > Len(rows) THEN [evaluations |-> evaluations, results |-> results]
    ELSE IF j > Len(rows)
    THEN DuplicateLoop(rows, t, i + 1, InnerStart(i + 1), evaluations, results)
    ELSE LET sim == cosine_similarity(rows[i].embedding, rows[j].embedding)
             out == IF SimilarityAbove(sim, t)
                    THEN << [row_id_1 |-> rows[i].row_id, row_id_2 |-> rows[j].row_id,
                             similarity |-> sim, flagged |-> TRUE] >>
                    ELSE <<>>
         IN DuplicateLoop(rows, t, i, j + 1, Append(evaluations, <<i, j>>),
                          results \o out)

semantic_duplicates_analyze(rows, t) ==
    DuplicateLoop(rows, t, 1, InnerStart(1), <<>>, <<>>)

DuplicateInit ==
    /\ Init!1 /\ Init!2 /\ Init!3 /\ Init!4 /\ Init!5 /\ Init!6 /\ Init!7 /\ Init!8
    /\ open_connections = 0 /\ stats = NoStats /\ initers = NoIniters
    /\ \E n \in 0..MaxDuplicateRows, t \in Thresholds :
         \E f \in [1..n -> Embeddings] :
            signal = [name |-> "semantic_duplicate",
                      rows |-> [i \in 1..n |-> [row_id |-> i, embedding |-> f[i]]],
                      param |-> t, result |-> "pending", results |-> <<>>,
                      evaluations |-> <<>>]

SemanticDuplicateAnalyze ==
    /\ signal.name = "semantic_duplicate" /\ signal.result = "pending"
    /\ LET r == semantic_duplicates_analyze(signal.rows, signal.param) IN
       signal' = [signal EXCEPT !.result = "ok", !.results = r.results,
                                !.evaluations = r.evaluations]
    /\ UNCHANGED <<schema, schema_version, response_pairs, detections, sqlite_sequence,
                   now, last, returned, open_connections, stats, initers>>

DuplicateNext == SemanticDuplicateAnalyze

DuplicateSpec == DuplicateInit /\ [][DuplicateNext]_vars

\* the evaluations of the positions i and j, in either order
EvaluationsOf(i, j) ==
    { k \in 1..Len(signal.evaluations) :
         signal.evaluations[k] = <<i, j>> \/ signal.evaluations[k] = <<j, i>> }

\* the findings that name the rows at positions i and j, in either order
DuplicateFindingsOf(i, j) ==
    { k \in 1..Len(signal.results) :
         \/ signal.results[k].row_id_1 = i /\ signal.results[k].row_id_2 = j
         \/ signal.results[k].row_id_1 = j /\ signal.results[k].row_id_2 = i }

\* C12: once analyze has run over N rows, it has evaluated N(N-1)/2 pairs of
\* positions, every pair of distinct positions once and no position with
\* itself; the pair {i, j}, i before j, has one finding, row_id_1 the row at i and
\* row_id_2 the row at j, when the similarity of the two embeddings is above the
\* threshold, and none otherwise.
C12_EachPairOnce ==
    (signal.name = "semantic_duplicate" /\ signal.result # "pending") =>
    LET N == Len(signal.rows) IN
    /\ 2 * Len(signal.evaluations) = N * (N - 1)
    /\ \A k \in 1..Len(signal.evaluations) :
          signal.evaluations[k][1] # signal.evaluations[k][2]
    /\ \A k \in 1..Len(signal.results) :
          signal.results[k].row_id_1 # signal.results[k].row_id_2
    /\ \A i \in 1..N, j \in 1..N :
          i < j =>
             /\ Cardinality(EvaluationsOf(i, j)) = 1
             /\ Cardinality(DuplicateFindingsOf(i, j)) =
                   (IF SimilarityAbove(cosine_similarity(signal.rows[i].embedding,
                                                         signal.rows[j].embedding),
                                       signal.param)
                    THEN 1 ELSE 0)
             /\ \A k \in DuplicateFindingsOf(i, j) :
                   /\ signal.results[k].row_id_1 = signal.rows[i].row_id
                   /\ signal.results[k].row_id_2 = signal.rows[j].row_id
                   /\ signal.results[k].flagged

\* analyze has run with threshold 0.95 over three rows, the first and the third
\* with the same embedding: three evaluations, one finding, for rows 1 and 3
C12_Witness ==
    /\ signal.name = "semantic_duplicate" /\ signal.result = "ok"
    /\ signal.param = <<95, 100>>
    /\ Len(signal.rows) = 3
    /\ signal.rows[1].embedding = <<1, 0>> /\ signal.rows[3].embedding = <<1, 0>>
    /\ signal.rows[2].embedding = <<0, 1>>
    /\ Len(signal.evaluations) = 3
    /\ Len(signal.results) = 1
    /\ signal.results[1].row_id_1 = 1 /\ signal.results[1].row_id_2 = 3

----------------------------------------------------------------------------
(* Entering get_db_connection.  The three statements before the try run    *)
(* with no handler around them: an exception raised by one of them leaves  *)
(* the generator at once, and neither the except nor the finally clause    *)
(* runs.  The statements of the try are those of the operations above, and *)
(* finally closes the connection whatever they, commit or rollback raise.  *)

StoreOperations ==
    { "init_db", "insert_response_pair", "count_response_pairs", "insert_detection",
      "get_detections_for_pair", "get_detection_statistics", "clear_all_data",
      "vacuum_db" }

\* the statements before the try
EnterSteps == <<"connect", "row_factory", "PRAGMA foreign_keys">>

\* connections opened and not closed when the statement at EnterSteps[at] raises:
\* there is none when connect itself fails, and one afterwards
LeftOpen(at) == IF EnterSteps[at] = "connect" THEN 0 ELSE 1

\* an operation whose get_db_connection raises before the try is entered
ConfigureFails ==
    \E op \in StoreOperations, at \in 1..Len(EnterSteps) :
        /\ open_connections + LeftOpen(at) <= MaxOpenConnections
        /\ open_connections' = open_connections + LeftOpen(at)
        /\ last' = Call(op, 0, "Fault", <<>>)
        /\ UNCHANGED <<schema, schema_version, response_pairs, detections,
                       sqlite_sequence, now, returned, signal, stats, initers>>

ConnectionNext == Next \/ ConfigureFails

ConnectionSpec == Init /\ [][ConnectionNext]_vars

\* C13: when an operation has returned or raised, every connection that
\* get_db_connection opened for it is closed, wherever the failure occurred:
\* while configuring the connection, in the block, in commit or in rollback.
C13_ConnectionReleased == open_connections = 0

----------------------------------------------------------------------------
(* get_detection_statistics.  Its three SELECTs run on one connection with *)
(* no transaction around them (the sqlite3 module opens one before INSERT, *)
(* UPDATE and DELETE only), so each reads the file as it is when it runs   *)
(* and other connections commit in between.  stats holds the call's        *)
(* position and the locals total, by_signal and severity_dist.             *)

NewFile == [ schema |-> {}, schema_version |-> {}, response_pairs |-> {},
             detections |-> {}, sqlite_sequence |-> 0 ]

\* the file after init_db() and one insert_response_pair
InitializedStore ==
    insert_response_pair(init_db(NewFile, 0).db, "p1", CHOOSE row \in Rows : TRUE, 0).db

Tenths(n) == n * (Micro \div 10)

RECURSIVE SumSeverity(_)
SumSeverity(S) ==
    IF S = {} THEN 0
    ELSE LET x == CHOOSE y \in S : TRUE IN x.severity + SumSeverity(S \ {x})

\* round(row["avg_severity"], 3), in thousandths: to the nearest, a tie to the even
RoundAvg(sum, count) ==
    LET den == count * 1000
        q   == sum \div den
        rem == sum % den
    IN IF 2 * rem > den THEN q + 1
       ELSE IF 2 * rem = den THEN q + (q % 2)
       ELSE q

\* SELECT COUNT(*) FROM detections
TotalQuery(d) == Cardinality(d.detections)

\* SELECT signal_type, COUNT(*), AVG(severity) FROM detections GROUP BY signal_type
BySignalQuery(d) ==
    [ s \in { x.signal_type : x \in d.detections } |->
        LET group == { x \in d.detections : x.signal_type = s } IN
        [count |-> Cardinality(group),
         avg_severity |-> RoundAvg(SumSeverity(group), Cardinality(group))] ]

\* SELECT COUNT(CASE WHEN severity >= 0.9 ...) ... FROM detections
SeverityDistributionQuery(d) ==
    [critical |-> Cardinality({ x \in d.detections : x.severity >= Tenths(9) }),
     high     |-> Cardinality({ x \in d.detections :
                                   x.severity >= Tenths(7) /\ x.severity < Tenths(9) }),
     medium   |-> Cardinality({ x \in d.detections :
                                   x.severity >= Tenths(5) /\ x.severity < Tenths(7) }),
     low      |-> Cardinality({ x \in d.detections : x.severity < Tenths(5) })]

StatsInit ==
    /\ schema = InitializedStore.schema
    /\ schema_version = InitializedStore.schema_version
    /\ response_pairs = InitializedStore.response_pairs
    /\ detections = InitializedStore.detections
    /\ sqlite_sequence = InitializedStore.sqlite_sequence
    /\ now = 0
    /\ last = NoCall
    /\ returned = <<>>
    /\ signal = NoSignal /\ open_connections = 0 /\ stats = NoStats /\ initers = NoIniters

StatsUnchanged ==
    UNCHANGED <<schema, schema_version, response_pairs, detections, sqlite_sequence,
                now, returned, signal, open_connections, initers>>

\* a call begins: the first SELECT and total = cursor.fetchone()[0]
StatsTotal ==
    /\ stats.pc \in {"idle", "done"}
    /\ stats' = [pc |-> "total", total |-> TotalQuery(Db), by_signal |-> <<>>,
                 severity_distribution |-> <<>>]
    /\ last' = NoCall
    /\ StatsUnchanged

\* the second SELECT and the by_signal comprehension
StatsBySignal ==
    /\ stats.pc = "total"
    /\ stats' = [stats EXCEPT !.pc = "by_signal", !.by_signal = BySignalQuery(Db)]
    /\ last' = NoCall
    /\ StatsUnchanged

\* the third SELECT, severity_dist = dict(cursor.fetchone()), and the return
StatsSeverity ==
    /\ stats.pc = "by_signal"
    /\ stats' = [stats EXCEPT !.pc = "done",
                              !.severity_distribution = SeverityDistributionQuery(Db)]
    /\ last' = Call("get_detection_statistics", 0, "ok", <<>>)
    /\ StatsUnchanged

\* the calls of the other connections
StatsNext ==
    \/ InsertDetection
    \/ ClearAllData
    \/ StatsTotal
    \/ StatsBySignal
    \/ StatsSeverity

StatsSpec == StatsInit /\ [][StatsNext]_vars

RECURSIVE SumCounts(_, _)
SumCounts(f, S) ==
    IF S = {} THEN 0
    ELSE LET s == CHOOSE t \in S : TRUE IN f[s].count + SumCounts(f, S \ {s})

\* C14: in every result get_detection_statistics returns, total_detections is
\* the sum of the four severity_distribution counts and the sum of the by_signal
\* counts, also when insert_detection or clear_all_data calls of other
\* connections commit between its three queries.
C14_StatisticsConsistent ==
    stats.pc = "done" =>
        /\ stats.total = stats.severity_distribution.critical
                         + stats.severity_distribution.high
                         + stats.severity_distribution.medium
                         + stats.severity_distribution.low
        /\ stats.total = SumCounts(stats.by_signal, DOMAIN stats.by_signal)

----------------------------------------------------------------------------
(* Two init_db calls at once, each on its own connection.  initers[p] is   *)
(* the call's position: pc, the statements of the script run so far (n),   *)
(* whether fetchone() returned None (missing), whether its INSERT is       *)
(* pending in an open transaction (wrote), and how the call ended.         *)

Initers == {"a", "b"}   \* the two callers

InitRaceInit ==
    /\ \E n \in 0..ScriptSteps : schema = CreateObjects(NewFile, n).schema
    /\ schema_version = {}
    /\ response_pairs = {}
    /\ detections = {}
    /\ sqlite_sequence = 0
    /\ now = 0
    /\ last = NoCall
    /\ returned = <<>>
    /\ signal = NoSignal /\ open_connections = 0 /\ stats = NoStats
    /\ initers = [p \in Initers |-> [pc |-> "connect", n |-> 0, missing |-> FALSE,
                                     wrote |-> FALSE, result |-> "pending"]]

InitRaceUnchanged ==
    UNCHANGED <<response_pairs, detections, sqlite_sequence, now, last, returned,
                signal, open_connections, stats>>

\* another connection holds the write lock: its INSERT is not yet committed
WriteLocked(p) == \E o \in Initers \ {p} : initers[o].wrote

\* with get_db_connection() as conn: the connection is opened and configured
RaceConnect(p) ==
    /\ initers[p].pc = "connect"
    /\ initers' = [initers EXCEPT ![p].pc = "script"]
    /\ UNCHANGED <<schema, schema_version>>
    /\ InitRaceUnchanged

\* cursor.executescript(SCHEMA_SQL): the next statement, committed as it ends
RaceScript(p) ==
    /\ initers[p].pc = "script"
    /\ schema' = schema \cup { SchemaObjects[initers[p].n + 1] }
    /\ initers' = [initers EXCEPT ![p].n = @ + 1,
                                  ![p].pc = IF initers[p].n + 1 = ScriptSteps
                                            THEN "select" ELSE "script"]
    /\ UNCHANGED schema_version
    /\ InitRaceUnchanged

\* SELECT version FROM schema_version WHERE version = ?; cursor.fetchone() is None
RaceSelect(p) ==
    /\ initers[p].pc = "select"
    /\ initers' = [initers EXCEPT ![p].missing = VersionRowMissing(Db),
                                  ![p].pc = IF VersionRowMissing(Db)
                                            THEN "insert" ELSE "commit"]
    /\ UNCHANGED <<schema, schema_version>>
    /\ InitRaceUnchanged

\* INSERT INTO schema_version (version) VALUES (?): a transaction begins; a
\* failing statement leaves through except (rollback) and finally (close)
RaceInsert(p) ==
    /\ initers[p].pc = "insert"
    /\ ~WriteLocked(p)
    /\ LET s == InsertVersionStmt(Db, CURRENT_SCHEMA_VERSION) IN
       initers' = IF s.err = "ok"
                  THEN [initers EXCEPT ![p].wrote = TRUE, ![p].pc = "commit"]
                  ELSE [initers EXCEPT ![p].result = s.err, ![p].pc = "close"]
    /\ UNCHANGED <<schema, schema_version>>
    /\ InitRaceUnchanged

\* the INSERT gives up waiting for the other connection's lock (busy timeout)
RaceInsertLocked(p) ==
    /\ initers[p].pc = "insert"
    /\ WriteLocked(p)
    /\ initers' = [initers EXCEPT ![p].result = "OperationalError", ![p].pc = "close"]
    /\ UNCHANGED <<schema, schema_version>>
    /\ InitRaceUnchanged

\* conn.commit()
RaceCommit(p) ==
    /\ initers[p].pc = "commit"
    /\ schema_version' = IF initers[p].wrote
                         THEN schema_version \cup {CURRENT_SCHEMA_VERSION}
                         ELSE schema_version
    /\ initers' = [initers EXCEPT ![p].wrote = FALSE, ![p].result = "ok",
                                  ![p].pc = "close"]
    /\ UNCHANGED schema
    /\ InitRaceUnchanged

\* except: conn.rollback(), raise; finally: conn.close(); the call returns or raises
RaceClose(p) ==
    /\ initers[p].pc = "close"
    /\ initers' = [initers EXCEPT ![p].pc = "done"]
    /\ UNCHANGED <<schema, schema_version>>
    /\ InitRaceUnchanged

InitRaceNext ==
    \E p \in Initers :
        \/ RaceConnect(p)
        \/ RaceScript(p)
        \/ RaceSelect(p)
        \/ RaceInsert(p)
        \/ RaceInsertLocked(p)
        \/ RaceCommit(p)
        \/ RaceClose(p)

InitRaceSpec == InitRaceInit /\ [][InitRaceNext]_vars

\* C15: when two init_db calls have run concurrently on an empty or
\* uninitialized store, both have completed without error and the store holds
\* exactly one schema_version row, in every interleaving of their steps.
C15_ConcurrentInitDb ==
    (\A p \in Initers : initers[p].pc = "done") =>
        /\ \A p \in Initers : initers[p].result = "ok"
        /\ Cardinality(schema_version) = 1

====
